---- MODULE Spec2Model ----
(***************************************************************************)
(* Model of streamlit_app.py (EmiMeter logistics emissions calculator).    *)
(*                                                                         *)
(* Two specifications share this module:                                   *)
(*   SpecCalc  exercises the pure functions calculate_category_emissions   *)
(*             and get_full_emission_dataframe on bounded inputs;          *)
(*   Spec      is the Streamlit session: the session_state dictionary, the *)
(*             callbacks load_sample_data / reset_data / update_sub_data,  *)
(*             the widgets, and the script body that Streamlit re-executes *)
(*             after the callbacks of an interaction have run.             *)
(*                                                                         *)
(* Python numbers are modelled as exact rationals [n, d] in lowest terms   *)
(* with d > 0, so every equality below is an equality of real numbers; the *)
(* rounding of IEEE doubles is not modelled.                               *)
(***************************************************************************)
EXTENDS Integers, Sequences, FiniteSets, TLC

----------------------------------------------------------------------------
(* Exact arithmetic for Python's int / float expressions.                  *)

Abs(x) == IF x < 0 THEN -x ELSE x

RECURSIVE GCD(_, _)
GCD(a, b) == IF b = 0 THEN a ELSE GCD(b, a % b)

Rat(n, d) ==
    LET g == GCD(Abs(n), d)
    IN  IF n = 0 THEN [n |-> 0, d |-> 1] ELSE [n |-> n \div g, d |-> d \div g]

Num(i) == [n |-> i, d |-> 1]

RMul(x, y) ==
    LET g1 == GCD(Abs(x.n), y.d)
        g2 == GCD(Abs(y.n), x.d)
    IN  IF x.n = 0 \/ y.n = 0 THEN Num(0)
        ELSE [n |-> (x.n \div g1) * (y.n \div g2),
              d |-> (x.d \div g2) * (y.d \div g1)]

\* x / k for a positive integer literal k (the code divides by 100 and 1000)
RDiv(x, k) == RMul(x, [n |-> 1, d |-> k])

RAdd(x, y) ==
    LET g == GCD(x.d, y.d)
        l == (x.d \div g) * y.d
    IN  Rat(x.n * (l \div x.d) + y.n * (l \div y.d), l)

RSub(x, y) == RAdd(x, [n |-> -y.n, d |-> y.d])

RLeq(x, y) ==
    LET g == GCD(x.d, y.d)
        l == (x.d \div g) * y.d
    IN  x.n * (l \div x.d) <= y.n * (l \div y.d)

----------------------------------------------------------------------------
(* Module-level data.                                                       *)

\* mutant: the heating factor copied from the electricity rows
FACTORS_heating_as_electricity ==
    [Cars      |-> Rat(18, 100),
     Trucks    |-> Rat(90, 100),
     Buses     |-> Rat(110, 100),
     Forklifts |-> Num(4),
     Planes    |-> Num(9000),
     Lighting  |-> Rat(42, 100),
     Heating   |-> Rat(42, 100),
     Cooling   |-> Rat(42, 100),
     Computing |-> Rat(42, 100)]

\* FACTORS (kg per unit)
FACTORS ==
    [Cars      |-> Rat(18, 100),
     Trucks    |-> Rat(90, 100),
     Buses     |-> Rat(110, 100),
     Forklifts |-> Num(4),
     Planes    |-> Num(9000),
     Lighting  |-> Rat(42, 100),
     Heating   |-> Rat(20, 100),
     Cooling   |-> Rat(42, 100),
     Computing |-> Rat(42, 100)]

NumericKeys ==
    {"Cars_km", "Trucks_km", "Buses_km", "Forklifts_hr", "Planes_hr",
     "Lighting_kWh", "Heating_kWhth", "Cooling_kWh", "Computing_kWh"}

DEFAULT_ACTIVITY_DATA ==
    [Cars_km              |-> 250000,
     Trucks_km            |-> 150000,
     Buses_km             |-> 80000,
     Forklifts_hr         |-> 2000,
     Planes_hr            |-> 400,
     Lighting_kWh         |-> 120000,
     Heating_kWhth        |-> 50000,
     Cooling_kWh          |-> 300000,
     Computing_kWh        |-> 90000,
     Subcontractors_tCO2e |-> <<120, 45, 20>>]

\* the list `categories` of get_full_emission_dataframe
categories ==
    <<"Cars", "Trucks", "Buses", "Forklifts", "Cargo Planes",
      "Office Lighting", "Heating", "Cooling (A/C)", "Computing (IT)",
      "Subcontractors">>

----------------------------------------------------------------------------
(* Python values: None, dictionaries, exceptions.                           *)

None == [tag |-> "None"]
Dict(items) == [tag |-> "dict", items |-> items]
EmptyDict == [k \in {} |-> 0]

KeyError == [exc |-> "KeyError"]
IsError(v) == "exc" \in DOMAIN v

\* mutant: every missing key reads as 0, also the load factor
Get_zero_default(d, key, default) == IF key \in DOMAIN d THEN d[key] ELSE 0

\* dict.get(key, default)
Get(d, key, default) == IF key \in DOMAIN d THEN d[key] ELSE default

\* sum(list) of a list of ints
RECURSIVE SumList(_)
SumList(s) == IF s = <<>> THEN 0 ELSE Head(s) + SumList(Tail(s))

----------------------------------------------------------------------------
(* calculate_category_emissions(category, activity_data, adjustments)       *)
(* Returns tons CO2e as a rational, or KeyError when a subscript A[...]     *)
(* names a key the activity dictionary does not have.                       *)

\* (A[key] * F[factor]) / 1000 : the seven unadjusted branches
Unadjusted(A, key, factor) ==
    IF key \notin DOMAIN A THEN KeyError
    ELSE RDiv(RMul(Num(A[key]), FACTORS[factor]), 1000)

\* mutant: the 0.7 mitigation coefficient left out
cars_emissions_kg_full_ev_credit(A, EV, KMRed) ==
    RMul(RMul(RMul(Num(A["Cars_km"]), FACTORS["Cars"]),
              RSub(Num(1), RDiv(Num(EV), 100))),
         RSub(Num(1), RDiv(Num(KMRed), 100)))

\* mutant: the KM reduction factor left out
cars_emissions_kg_without_km_reduction(A, EV, KMRed) ==
    RMul(RMul(Num(A["Cars_km"]), FACTORS["Cars"]),
         RSub(Num(1), RDiv(RMul(Rat(7, 10), Num(EV)), 100)))

\* emissions_kg of the Cars branch
cars_emissions_kg(A, EV, KMRed) ==
    RMul(RMul(RMul(Num(A["Cars_km"]), FACTORS["Cars"]),
              RSub(Num(1), RDiv(RMul(Rat(7, 10), Num(EV)), 100))),
         RSub(Num(1), RDiv(Num(KMRed), 100)))

\* mutant: the load factor is not applied
planes_emissions_kg_ignoring_load_factor(A, LoadFactor) ==
    RMul(Num(A["Planes_hr"]), FACTORS["Planes"])

\* emissions_kg of the Cargo Planes branch
planes_emissions_kg(A, LoadFactor) ==
    RMul(RMul(Num(A["Planes_hr"]), FACTORS["Planes"]), RDiv(Num(LoadFactor), 100))

\* the if/elif chain "Category-Specific Formulas"; adj is the dictionary the
\* first statement of the function has put in place of None
category_formulas(category, A, adj) ==
    CASE category = "Cars" ->
           LET EV == Get(adj, "EV_Share", 0)
               KMRed == Get(adj, "KM_Reduction", 0)
           IN  IF "Cars_km" \notin DOMAIN A THEN KeyError
               ELSE RDiv(cars_emissions_kg(A, EV, KMRed), 1000)
      [] category = "Trucks" -> Unadjusted(A, "Trucks_km", "Trucks")
      [] category = "Buses" -> Unadjusted(A, "Buses_km", "Buses")
      [] category = "Forklifts" -> Unadjusted(A, "Forklifts_hr", "Forklifts")
      [] category = "Cargo Planes" ->
           LET LoadFactor == Get(adj, "Load_Factor", 100)
           IN  IF "Planes_hr" \notin DOMAIN A THEN KeyError
               ELSE RDiv(planes_emissions_kg(A, LoadFactor), 1000)
      [] category = "Office Lighting" -> Unadjusted(A, "Lighting_kWh", "Lighting")
      [] category = "Heating" -> Unadjusted(A, "Heating_kWhth", "Heating")
      [] category = "Cooling (A/C)" -> Unadjusted(A, "Cooling_kWh", "Cooling")
      [] category = "Computing (IT)" -> Unadjusted(A, "Computing_kWh", "Computing")
      [] category = "Subcontractors" ->
           IF "Subcontractors_tCO2e" \notin DOMAIN A THEN KeyError
           ELSE Num(SumList(A["Subcontractors_tCO2e"]))
      [] OTHER -> Num(0)

\* mutant: the KM reduction is applied to trucks as well
calculate_km_reduction_on_trucks(category, activity_data, adjustments) ==
    LET adj == IF adjustments = None THEN EmptyDict ELSE adjustments.items
        e == category_formulas(category, activity_data, adj)
    IN  IF category # "Trucks" \/ IsError(e) THEN e
        ELSE RMul(e, RSub(Num(1), RDiv(Num(Get(adj, "KM_Reduction", 0)), 100)))

\* mutant: the Buses branch is a copy of the Trucks branch
calculate_buses_from_trucks(category, activity_data, adjustments) ==
    category_formulas(IF category = "Buses" THEN "Trucks" ELSE category, activity_data,
                      IF adjustments = None THEN EmptyDict ELSE adjustments.items)

\* mutant: the FACTORS key 'Planes' is accepted as a category name
calculate_planes_alias(category, activity_data, adjustments) ==
    category_formulas(IF category = "Planes" THEN "Cargo Planes" ELSE category,
                      activity_data,
                      IF adjustments = None THEN EmptyDict ELSE adjustments.items)

calculate_category_emissions(category, activity_data, adjustments) ==
    category_formulas(category, activity_data,
                      IF adjustments = None THEN EmptyDict ELSE adjustments.items)

----------------------------------------------------------------------------
(* get_full_emission_dataframe(activity_data, adjustments)                  *)
(* A DataFrame is [rows |-> the sequence of its rows]; the call raises when  *)
(* any of its subscripts or calls to calculate_category_emissions raises.   *)

\* the if/elif chain that picks input_value "for display purposes"
input_value(cat, activity_data) ==
    LET key == CASE cat = "Cars" -> "Cars_km"
                 [] cat = "Trucks" -> "Trucks_km"
                 [] cat = "Buses" -> "Buses_km"
                 [] cat = "Forklifts" -> "Forklifts_hr"
                 [] cat = "Cargo Planes" -> "Planes_hr"
                 [] cat = "Office Lighting" -> "Lighting_kWh"
                 [] cat = "Heating" -> "Heating_kWhth"
                 [] cat = "Cooling (A/C)" -> "Cooling_kWh"
                 [] cat = "Computing (IT)" -> "Computing_kWh"
                 [] cat = "Subcontractors" -> "Subcontractors_tCO2e"
    IN  IF key \notin DOMAIN activity_data THEN KeyError
        ELSE IF cat = "Subcontractors" THEN Num(SumList(activity_data[key]))
        ELSE Num(activity_data[key])

get_full_emission_dataframe(activity_data, adjustments) ==
    LET results ==
            [i \in 1..Len(categories) |->
                [Category |-> categories[i],
                 ActivityData |-> input_value(categories[i], activity_data),
                 Emissions |-> calculate_category_emissions(categories[i], activity_data,
                                                            adjustments)]]
    IN  IF \E i \in 1..Len(categories) :
              IsError(results[i].Emissions) \/ IsError(results[i].ActivityData)
        THEN KeyError
        ELSE [rows |-> results]

\* df['Emissions (tCO2e)'].sum()
RECURSIVE SumColumn(_)
SumColumn(rows) ==
    IF rows = <<>> THEN Num(0) ELSE RAdd(Head(rows).Emissions, SumColumn(Tail(rows)))

SumEmissions(df) == SumColumn(df.rows)

----------------------------------------------------------------------------
(* State.                                                                   *)

VARIABLES
    \* --- SpecCalc: the inputs handed to the two pure functions, and what
    \*     they returned for them
    activity,          \* the activity_data argument
    scenario,          \* the adjustments argument (None or a dictionary)
    result,            \* calculate_category_emissions per category argument
    report,            \* get_full_emission_dataframe(activity, scenario)
    prev_activity,     \* the arguments and the report before the last change
    prev_scenario,
    prev_report,
    op,                \* the last change of the arguments
    updates,           \* number of changes so far
    \* --- Spec: the Streamlit session
    session_state,     \* st.session_state
    default_subcontractors, \* the list DEFAULT_ACTIVITY_DATA['Subcontractors_tCO2e']
                       \* of the script run whose callbacks are registered
    shared_list,       \* session_state['activity_data']['Subcontractors_tCO2e']
                       \* is that same list object
    widget_value_arg,  \* the value= argument each number_input was last built with
    widget_identity,   \* what identifies a keyed widget across reruns
    current_activity_data,
    optimized_adjustments,
    df_baseline,
    df_optimized,
    total_baseline_co2,
    total_optimized_co2,
    pc,                \* "waiting" for the user, or "rerun_requested"
    ran,               \* events handled since the last completed script run
    edits              \* number of widget edits so far

calc_vars == <<activity, scenario, result, report, prev_activity, prev_scenario,
               prev_report, op, updates>>

ui_vars == <<session_state, default_subcontractors, shared_list, widget_value_arg,
             widget_identity, current_activity_data, optimized_adjustments,
             df_baseline, df_optimized, total_baseline_co2, total_optimized_co2,
             pc, ran, edits>>

vars == <<calc_vars, ui_vars>>

----------------------------------------------------------------------------
(* Bounds and input sets.                                                   *)

MaxUpdates == 1     \* changes of the arguments per SpecCalc behaviour
MaxEdits == 2       \* widget edits per session
MaxBatch == 2       \* events coalesced into one rerun request

AdjustmentKeys == {"EV_Share", "KM_Reduction", "Load_Factor"}

\* what the script passes as baseline_adjustments
baseline_adjustments == [EV_Share |-> 0, KM_Reduction |-> 0, Load_Factor |-> 100]

FullAdjustments ==
    {baseline_adjustments,
     [EV_Share |-> 30, KM_Reduction |-> 10, Load_Factor |-> 80],
     [EV_Share |-> 100, KM_Reduction |-> 0, Load_Factor |-> 0],
     [EV_Share |-> 0, KM_Reduction |-> 100, Load_Factor |-> 50],
     [EV_Share |-> 50, KM_Reduction |-> 50, Load_Factor |-> 25]}

Restrict(f, S) == [k \in S |-> f[k]]

\* None, and every dictionary that has some of the three keys
AdjustmentRecords ==
    {None} \cup {Dict(Restrict(f, S)) : f \in FullAdjustments, S \in SUBSET AdjustmentKeys}

ZeroActivity ==
    [k \in DOMAIN DEFAULT_ACTIVITY_DATA |->
        IF k = "Subcontractors_tCO2e" THEN <<0, 0, 0>> ELSE 0]

EmptyActivity == [k \in {} |-> 0]

ActivityRecords == {DEFAULT_ACTIVITY_DATA, ZeroActivity, EmptyActivity}

ActivityValues == {0, 1000}

UnknownCategories == {"Planes", "Cooling", "Computing", "cars", ""}

CategoryArguments == {categories[i] : i \in 1..Len(categories)} \cup UnknownCategories

----------------------------------------------------------------------------
(* SpecCalc: apply the two functions to bounded arguments.                  *)

Results(a, s) == [c \in CategoryArguments |-> calculate_category_emissions(c, a, s)]

NoOp == [name |-> "init", key |-> "", index |-> 0]

CalcInit ==
    /\ activity \in ActivityRecords
    /\ scenario \in AdjustmentRecords
    /\ result = Results(activity, scenario)
    /\ report = get_full_emission_dataframe(activity, scenario)
    /\ prev_activity = activity
    /\ prev_scenario = scenario
    /\ prev_report = report
    /\ op = NoOp
    /\ updates = 0

\* the same functions are called again after one argument has changed
Recompute(a, s, o) ==
    /\ updates < MaxUpdates
    /\ updates' = updates + 1
    /\ prev_activity' = activity
    /\ prev_scenario' = scenario
    /\ prev_report' = report
    /\ activity' = a
    /\ scenario' = s
    /\ result' = Results(a, s)
    /\ report' = get_full_emission_dataframe(a, s)
    /\ op' = o
    /\ UNCHANGED ui_vars

\* a caller passes another adjustments argument with the same activity data
SetAdjustments(s) ==
    /\ s # scenario
    /\ Recompute(activity, s, [name |-> "adjustments", key |-> "", index |-> 0])

\* a caller passes activity data that differs in one numeric field
SetActivityField(k, v) ==
    /\ Recompute([x \in DOMAIN activity \cup {k} |-> IF x = k THEN v ELSE activity[x]],
                 scenario, [name |-> "activity", key |-> k, index |-> 0])

\* a caller passes activity data that differs in one subcontractor entry
SetSubcontractor(i, v) ==
    /\ "Subcontractors_tCO2e" \in DOMAIN activity
    /\ Recompute([activity EXCEPT !["Subcontractors_tCO2e"][i] = v],
                 scenario, [name |-> "subcontractor", key |-> "Subcontractors_tCO2e",
                            index |-> i])

CalcNext ==
    \/ \E s \in AdjustmentRecords : SetAdjustments(s)
    \/ \E k \in NumericKeys, v \in ActivityValues : SetActivityField(k, v)
    \/ \E i \in 1..3, v \in ActivityValues : SetSubcontractor(i, v)

----------------------------------------------------------------------------
(* Spec: the Streamlit session.                                             *)
(*                                                                          *)
(* Streamlit runs the callbacks of the widgets that changed and then        *)
(* executes the whole script again, in a fresh module namespace: the        *)
(* assignment to DEFAULT_ACTIVITY_DATA at the top of the script builds a    *)
(* new dictionary and a new list in every run, while st.session_state keeps *)
(* the objects stored in it.  Events that arrive before the requested rerun *)
(* has started are coalesced and their callbacks run one after another.     *)

SubKeys == <<"Sub1_key", "Sub2_key", "Sub3_key">>

Put(d, k, v) == [x \in DOMAIN d \cup {k} |-> IF x = k THEN v ELSE d[x]]

\* "if key not in st.session_state: st.session_state[key] = value"
SetDefault(d, k, v) == IF k \in DOMAIN d THEN d ELSE Put(d, k, v)

\* lines "State initialization"
StateInitialization(ss) ==
    LET s1 == SetDefault(ss, "activity_data", DEFAULT_ACTIVITY_DATA)
        s2 == SetDefault(s1, "adj_ev_share", 30)
        s3 == SetDefault(s2, "adj_km_red", 10)
        s4 == SetDefault(s3, "adj_load_factor", 80)
    IN  SetDefault(s4, "Cars_km", DEFAULT_ACTIVITY_DATA["Cars_km"])

\* st.number_input(..., value=arg, key=key): the value the widget holds after
\* the call.  A widget seen for the first time takes value=; a known widget
\* keeps its state, except that a Streamlit which identifies widgets by their
\* arguments treats a changed value= as a new widget.
number_input(ss, args, identity, key, arg) ==
    IF key \notin DOMAIN ss THEN arg
    ELSE IF identity = "arguments" /\ key \in DOMAIN args /\ args[key] # arg THEN arg
    ELSE ss[key]

WidgetKeys == NumericKeys \cup {SubKeys[i] : i \in 1..3}

\* the value= argument the script passes for each keyed number_input
ValueArgs(ss) ==
    [k \in WidgetKeys |->
        IF k \in NumericKeys THEN ss["activity_data"][k]
        ELSE ss["activity_data"]["Subcontractors_tCO2e"]
                [CHOOSE i \in 1..3 : SubKeys[i] = k]]

\* the input widgets of the script, top to bottom
InputWidgets(ss, args, identity) ==
    [k \in DOMAIN ss \cup WidgetKeys |->
        IF k \in WidgetKeys THEN number_input(ss, args, identity, k, ValueArgs(ss)[k])
        ELSE ss[k]]

\* current_activity_data = {...}: nine widget keys and the session's list
CurrentActivityData(ss) ==
    [k \in DOMAIN DEFAULT_ACTIVITY_DATA |->
        IF k = "Subcontractors_tCO2e"
        THEN ss["activity_data"]["Subcontractors_tCO2e"]
        ELSE ss[k]]

\* optimized_adjustments = {...}: the three slider keys
OptimizedAdjustments(ss) ==
    [EV_Share |-> ss["adj_ev_share"],
     KM_Reduction |-> ss["adj_km_red"],
     Load_Factor |-> ss["adj_load_factor"]]

EmptySession == [k \in {} |-> 0]

\* the state after the first execution of the script, on an empty session
UIInitWith(identity) ==
    /\ widget_identity = identity
    /\ session_state = InputWidgets(StateInitialization(EmptySession), EmptySession,
                                    identity)
    /\ widget_value_arg = ValueArgs(session_state)
    /\ default_subcontractors = DEFAULT_ACTIVITY_DATA["Subcontractors_tCO2e"]
    \* DEFAULT_ACTIVITY_DATA.copy() is shallow: the copy made by the state
    \* initialization holds the list of this run's DEFAULT_ACTIVITY_DATA
    /\ shared_list = ("activity_data" \notin DOMAIN EmptySession)
    /\ current_activity_data = CurrentActivityData(session_state)
    /\ optimized_adjustments = OptimizedAdjustments(session_state)
    /\ df_baseline = get_full_emission_dataframe(current_activity_data,
                                                 Dict(baseline_adjustments))
    /\ df_optimized = get_full_emission_dataframe(current_activity_data,
                                                  Dict(optimized_adjustments))
    /\ total_baseline_co2 = SumEmissions(df_baseline)
    /\ total_optimized_co2 = SumEmissions(df_optimized)
    /\ pc = "waiting"
    /\ ran = <<>>
    /\ edits = 0

\* the callbacks, as functions of the objects they read and write:
\* c.session_state, c.default_subcontractors, c.shared_list

load_sample_data(c) ==
    [session_state |->
        [c.session_state EXCEPT
            \* DEFAULT_ACTIVITY_DATA.copy(): a new dictionary, the same list
            !["activity_data"] =
                [DEFAULT_ACTIVITY_DATA EXCEPT
                    !["Subcontractors_tCO2e"] = c.default_subcontractors],
            !["adj_ev_share"] = 30,
            !["adj_km_red"] = 10,
            !["adj_load_factor"] = 80],
     default_subcontractors |-> c.default_subcontractors,
     shared_list |-> TRUE]

reset_data(c) ==
    [session_state |->
        [c.session_state EXCEPT
            !["activity_data"] = ZeroActivity,
            !["adj_ev_share"] = 0,
            !["adj_km_red"] = 0,
            !["adj_load_factor"] = 100],
     default_subcontractors |-> c.default_subcontractors,
     shared_list |-> FALSE]

\* index is 0-based as in the script; sequences here are 1-based
update_sub_data(c, index) ==
    LET v == c.session_state[SubKeys[index + 1]]
    IN  [session_state |->
            [c.session_state EXCEPT
                !["activity_data"]["Subcontractors_tCO2e"][index + 1] = v],
         default_subcontractors |->
            IF c.shared_list
            THEN [c.default_subcontractors EXCEPT ![index + 1] = v]
            ELSE c.default_subcontractors,
         shared_list |-> c.shared_list]

Objects ==
    [session_state |-> session_state,
     default_subcontractors |-> default_subcontractors,
     shared_list |-> shared_list]

NumberInputValues == {1000}
SubcontractorValues == {5}
SliderValues == {50}
SliderKeys == {"adj_ev_share", "adj_km_red", "adj_load_factor"}

\* an event joins the pending rerun request, or opens a new one
Event(name, c) ==
    /\ IF pc = "waiting"
       THEN ran' = <<name>>
       ELSE Len(ran) < MaxBatch /\ ran' = Append(ran, name)
    /\ pc' = "rerun_requested"
    /\ session_state' = c.session_state
    /\ default_subcontractors' = c.default_subcontractors
    /\ shared_list' = c.shared_list
    /\ UNCHANGED <<widget_value_arg, widget_identity, current_activity_data,
                   optimized_adjustments, df_baseline, df_optimized,
                   total_baseline_co2, total_optimized_co2>>
    /\ UNCHANGED calc_vars

\* st.button("Load Sample Data", on_click=load_sample_data)
ClickLoadSampleData ==
    /\ Event("load_sample_data", load_sample_data(Objects))
    /\ UNCHANGED edits

\* st.button("Reset", on_click=reset_data)
ClickReset ==
    /\ Event("reset_data", reset_data(Objects))
    /\ UNCHANGED edits

WidgetEdit ==
    /\ edits < MaxEdits
    /\ edits' = edits + 1

\* the user types v into Sub<index+1>; on_change=update_sub_data, args=(index,)
EditSubcontractor(index, v) ==
    /\ WidgetEdit
    /\ Event("update_sub_data",
             update_sub_data([Objects EXCEPT
                                 !.session_state[SubKeys[index + 1]] = v], index))

\* the user types v into one of the nine keyed number inputs (no callback)
EditNumberInput(key, v) ==
    /\ WidgetEdit
    /\ session_state[key] # v
    /\ Event("number_input", [Objects EXCEPT !.session_state[key] = v])

\* the user moves one of the three sliders (no callback)
MoveSlider(key, v) ==
    /\ WidgetEdit
    /\ session_state[key] # v
    /\ Event("slider", [Objects EXCEPT !.session_state[key] = v])

\* Streamlit executes the script after the callbacks of the request
RunScript ==
    /\ pc = "rerun_requested"
    \* the script's first statements bind DEFAULT_ACTIVITY_DATA to a new literal
    /\ default_subcontractors' = DEFAULT_ACTIVITY_DATA["Subcontractors_tCO2e"]
    /\ shared_list' = ("activity_data" \notin DOMAIN session_state)
    /\ session_state' = InputWidgets(StateInitialization(session_state),
                                     widget_value_arg, widget_identity)
    /\ widget_value_arg' = ValueArgs(session_state')
    /\ current_activity_data' = CurrentActivityData(session_state')
    /\ optimized_adjustments' = OptimizedAdjustments(session_state')
    /\ df_baseline' = get_full_emission_dataframe(current_activity_data',
                                                  Dict(baseline_adjustments))
    /\ df_optimized' = get_full_emission_dataframe(current_activity_data',
                                                   Dict(optimized_adjustments'))
    /\ total_baseline_co2' = SumEmissions(df_baseline')
    /\ total_optimized_co2' = SumEmissions(df_optimized')
    /\ pc' = "waiting"
    /\ UNCHANGED <<widget_identity, ran, edits>>
    /\ UNCHANGED calc_vars

WidgetIdentities == {"key", "arguments"}

Init ==
    /\ \E identity \in WidgetIdentities : UIInitWith(identity)
    /\ activity = DEFAULT_ACTIVITY_DATA
    /\ scenario = Dict(baseline_adjustments)
    /\ result = Results(activity, scenario)
    /\ report = get_full_emission_dataframe(activity, scenario)
    /\ prev_activity = activity
    /\ prev_scenario = scenario
    /\ prev_report = report
    /\ op = NoOp
    /\ updates = 0

Next ==
    \/ ClickLoadSampleData
    \/ ClickReset
    \/ \E index \in 0..2, v \in SubcontractorValues : EditSubcontractor(index, v)
    \/ \E key \in NumericKeys, v \in NumberInputValues : EditNumberInput(key, v)
    \/ \E key \in SliderKeys, v \in SliderValues : MoveSlider(key, v)
    \/ RunScript

Spec == Init /\ [][Next]_vars

InitCalc == CalcInit /\ UIInitWith("key")

SpecCalc == InitCalc /\ [][CalcNext]_vars

----------------------------------------------------------------------------
(* Properties of the calculation engine, checked under SpecCalc.            *)

Ok(df) == ~IsError(df)

\* the 'Emissions (tCO2e)' column and the 'Activity Data' column of one row
EmissionsOf(df, cat) == df.rows[CHOOSE i \in 1..Len(categories) : categories[i] = cat].Emissions
ActivityOf(df, cat) == df.rows[CHOOSE i \in 1..Len(categories) : categories[i] = cat].ActivityData

OptimizedSample == [EV_Share |-> 30, KM_Reduction |-> 10, Load_Factor |-> 80]

\* C1: for the sample activity and the baseline adjustments the report has the
\* ten rows in the fixed category order with emissions 45.0, 135.0, 88.0, 8.0,
\* 3600.0, 50.4, 10.0, 126.0, 37.8, 185.0, and their sum is 4285.2 tons CO2e.
C1_SampleBaselineReport ==
    (activity = DEFAULT_ACTIVITY_DATA /\ scenario = Dict(baseline_adjustments)) =>
        /\ Ok(report)
        /\ Len(report.rows) = 10
        /\ [i \in 1..10 |-> report.rows[i].Category] = categories
        /\ [i \in 1..10 |-> report.rows[i].Emissions] =
               <<Num(45), Num(135), Num(88), Num(8), Num(3600), Rat(504, 10),
                 Num(10), Num(126), Rat(378, 10), Num(185)>>
        /\ SumEmissions(report) = Rat(42852, 10)

C1_Witness ==
    /\ activity = DEFAULT_ACTIVITY_DATA
    /\ scenario = Dict(baseline_adjustments)
    /\ Ok(report)
    /\ EmissionsOf(report, "Cargo Planes") = Num(3600)

\* C2 as stated: for the sample activity with EV_Share=30, KM_Reduction=10,
\* Load_Factor=80 the Cars emissions are 31.5495 tons CO2e.
C2_CarsOptimizedAsStated ==
    (activity = DEFAULT_ACTIVITY_DATA /\ scenario = Dict(OptimizedSample)) =>
        result["Cars"] = Rat(315495, 10000)

\* C2 amended: for the sample activity with EV_Share=30, KM_Reduction=10,
\* Load_Factor=80 the Cars emissions are 250000*0.18*(1-0.21)*0.9/1000 = 31.995
\* tons CO2e.
C2_CarsOptimized ==
    (activity = DEFAULT_ACTIVITY_DATA /\ scenario = Dict(OptimizedSample)) =>
        result["Cars"] = Rat(31995, 1000)

C2_Witness ==
    /\ activity = DEFAULT_ACTIVITY_DATA
    /\ scenario = Dict(OptimizedSample)
    /\ ~IsError(result["Cars"])
    /\ result["Cars"] # Num(45)

OtherCategories ==
    {"Trucks", "Buses", "Forklifts", "Office Lighting", "Heating", "Cooling (A/C)",
     "Computing (IT)", "Subcontractors"}

\* C3: two reports built from the same activity record with different
\* adjustment records agree, in emissions and in activity input value, on the
\* eight rows other than Cars and Cargo Planes, and the difference of their
\* totals is the Cars delta plus the Cargo Planes delta.
C3_AdjustmentsTouchOnlyCarsAndPlanes ==
    (op.name = "adjustments" /\ Ok(report) /\ Ok(prev_report)) =>
        /\ \A c \in OtherCategories :
              /\ EmissionsOf(report, c) = EmissionsOf(prev_report, c)
              /\ ActivityOf(report, c) = ActivityOf(prev_report, c)
        /\ RSub(SumEmissions(report), SumEmissions(prev_report)) =
               RAdd(RSub(EmissionsOf(report, "Cars"), EmissionsOf(prev_report, "Cars")),
                    RSub(EmissionsOf(report, "Cargo Planes"),
                         EmissionsOf(prev_report, "Cargo Planes")))

C3_Witness ==
    /\ op.name = "adjustments"
    /\ activity = prev_activity
    /\ Ok(report) /\ Ok(prev_report)
    /\ EmissionsOf(report, "Cars") # EmissionsOf(prev_report, "Cars")
    /\ EmissionsOf(report, "Cargo Planes") # EmissionsOf(prev_report, "Cargo Planes")
    /\ SumEmissions(report) # SumEmissions(prev_report)

\* the adjustments argument with every missing field set to its neutral value
Neutralized(s) ==
    LET d == IF s = None THEN EmptyDict ELSE s.items
    IN  Dict([k \in AdjustmentKeys |->
                 IF k \in DOMAIN d THEN d[k] ELSE baseline_adjustments[k]])

\* C4: with adjustments None, empty, or lacking any of the three fields, every
\* category's emissions are those obtained with the missing fields set to
\* EV_Share=0, KM_Reduction=0, Load_Factor=100, and no error is raised that the
\* full record would not raise; a report whose adjustments are all neutral has
\* the total of the baseline report.
C4_OmittedAdjustmentsAreNeutral ==
    /\ \A c \in CategoryArguments :
          result[c] = calculate_category_emissions(c, activity, Neutralized(scenario))
    /\ (DOMAIN activity = DOMAIN DEFAULT_ACTIVITY_DATA) =>
          /\ \A c \in CategoryArguments : ~IsError(result[c])
          /\ Ok(report)
    /\ (Ok(report) /\ Neutralized(scenario) = Dict(baseline_adjustments)) =>
          SumEmissions(report) =
              SumEmissions(get_full_emission_dataframe(activity,
                                                       Dict(baseline_adjustments)))

C4_Witness ==
    /\ scenario \in {None, Dict(EmptyDict)}
    /\ activity = DEFAULT_ACTIVITY_DATA
    /\ result["Cargo Planes"] = Num(3600)
    /\ result["Cars"] = Num(45)
    /\ SumEmissions(report) = Rat(42852, 10)

IsDict(s) == s # None
Has(s, k, v) == IsDict(s) /\ k \in DOMAIN s.items /\ s.items[k] = v

\* Cars_km * 0.18 / 1000
UnadjustedCars == Rat(activity["Cars_km"] * 18, 100000)

\* C5: with EV_Share=100 and KM_Reduction=0 the Cars emissions are 30% of
\* Cars_km*0.18/1000; with KM_Reduction=100 and EV_Share=0 they are zero.
C5_CarsAdjustmentBounds ==
    ("Cars_km" \in DOMAIN activity) =>
        /\ (Has(scenario, "EV_Share", 100) /\ Has(scenario, "KM_Reduction", 0)) =>
              result["Cars"] = RMul(Rat(30, 100), UnadjustedCars)
        /\ (Has(scenario, "KM_Reduction", 100) /\ Has(scenario, "EV_Share", 0)) =>
              result["Cars"] = Num(0)

C5_Witness ==
    /\ "Cars_km" \in DOMAIN activity
    /\ activity["Cars_km"] = 250000
    /\ Has(scenario, "EV_Share", 100) /\ Has(scenario, "KM_Reduction", 0)
    /\ result["Cars"] = Rat(135, 10)

\* Planes_hr * 9000 / 1000
UnadjustedPlanes == Num(activity["Planes_hr"] * 9)

\* C6: with Load_Factor = L in [0,100] the Cargo Planes emissions are L/100
\* times Planes_hr*9000/1000: the unadjusted value at L=100, zero at L=0, and
\* 2880.0 for Planes_hr=400 and L=80.
C6_PlanesLinearInLoadFactor ==
    ("Planes_hr" \in DOMAIN activity /\ IsDict(scenario)
        /\ "Load_Factor" \in DOMAIN scenario.items) =>
        LET L == scenario.items["Load_Factor"]
        IN  /\ L \in 0..100
            /\ result["Cargo Planes"] = RMul(Rat(L, 100), UnadjustedPlanes)
            /\ (L = 100) => result["Cargo Planes"] = UnadjustedPlanes
            /\ (L = 0) => result["Cargo Planes"] = Num(0)
            /\ (L = 80 /\ activity["Planes_hr"] = 400) =>
                  result["Cargo Planes"] = Num(2880)

C6_Witness ==
    /\ "Planes_hr" \in DOMAIN activity
    /\ activity["Planes_hr"] = 400
    /\ Has(scenario, "Load_Factor", 80)
    /\ result["Cargo Planes"] = Num(2880)

\* the category whose formula reads an activity key
CategoryOfKey(k) ==
    CHOOSE c \in OtherCategories \cup {"Cars", "Cargo Planes"} :
        \/ c = "Cars" /\ k = "Cars_km"
        \/ c = "Trucks" /\ k = "Trucks_km"
        \/ c = "Buses" /\ k = "Buses_km"
        \/ c = "Forklifts" /\ k = "Forklifts_hr"
        \/ c = "Cargo Planes" /\ k = "Planes_hr"
        \/ c = "Office Lighting" /\ k = "Lighting_kWh"
        \/ c = "Heating" /\ k = "Heating_kWhth"
        \/ c = "Cooling (A/C)" /\ k = "Cooling_kWh"
        \/ c = "Computing (IT)" /\ k = "Computing_kWh"
        \/ c = "Subcontractors" /\ k = "Subcontractors_tCO2e"

\* the last change raised (or kept) one activity field or subcontractor entry
Increased ==
    \/ /\ op.name = "activity"
       /\ op.key \in DOMAIN prev_activity
       /\ prev_activity[op.key] <= activity[op.key]
    \/ /\ op.name = "subcontractor"
       /\ prev_activity[op.key][op.index] <= activity[op.key][op.index]

\* C7: when one activity field (or one subcontractor entry) is increased and
\* everything else is kept, the emissions of that field's category do not
\* decrease and no other category's emissions change.
C7_Monotonicity ==
    (Increased /\ Ok(report) /\ Ok(prev_report)) =>
        /\ RLeq(EmissionsOf(prev_report, CategoryOfKey(op.key)),
                EmissionsOf(report, CategoryOfKey(op.key)))
        /\ \A c \in (OtherCategories \cup {"Cars", "Cargo Planes"}) \ {CategoryOfKey(op.key)} :
              EmissionsOf(report, c) = EmissionsOf(prev_report, c)

C7_Witness ==
    /\ Increased /\ Ok(report) /\ Ok(prev_report)
    /\ op.key = "Trucks_km"
    /\ scenario = Dict(OptimizedSample)
    /\ EmissionsOf(report, "Trucks") # EmissionsOf(prev_report, "Trucks")
    /\ RLeq(EmissionsOf(prev_report, "Trucks"), EmissionsOf(report, "Trucks"))

\* C8: for a category that is none of the ten dispatched names the function
\* returns zero and raises nothing, whatever the activity and adjustment
\* records are, even when the activity record has no field at all.
C8_UnknownCategoryIsZero ==
    \A c \in UnknownCategories : result[c] = Num(0)

C8_Witness ==
    /\ activity = EmptyActivity
    /\ result["Planes"] = Num(0)
    /\ result["Cargo Planes"] = KeyError

----------------------------------------------------------------------------
(* Properties of the session, checked under Spec.                           *)

\* C9: once the reset_data callback has run and the script has been executed
\* for it, the activity record of the calculation has every numeric field 0
\* and subcontractors [0, 0, 0], the adjustments used are EV_Share=0,
\* KM_Reduction=0, Load_Factor=100, and both totals are 0.
C9_ResetZeroesTheCalculation ==
    (pc = "waiting" /\ ran = <<"reset_data">>) =>
        /\ \A k \in NumericKeys : current_activity_data[k] = 0
        /\ current_activity_data["Subcontractors_tCO2e"] = <<0, 0, 0>>
        /\ optimized_adjustments = baseline_adjustments
        /\ total_baseline_co2 = Num(0)
        /\ total_optimized_co2 = Num(0)

\* C10: DEFAULT_ACTIVITY_DATA['Subcontractors_tCO2e'] stays [120, 45, 20]
\* whatever callbacks have run, so whenever load_sample_data was the last
\* callback the session's subcontractor list is [120, 45, 20].
C10_SampleDefaultsAreConstant ==
    /\ default_subcontractors = <<120, 45, 20>>
    /\ (ran # <<>> /\ ran[Len(ran)] = "load_sample_data") =>
          session_state["activity_data"]["Subcontractors_tCO2e"] = <<120, 45, 20>>

====
